---- MODULE Spec2Model ----
(***************************************************************************)
(* Model of agb-image-converter/src/palette16.rs: the Palette16 container  *)
(* and the Palette16Optimiser greedy covering of input palettes by banks.  *)
(* Colours are natural numbers (Colour is an opaque, comparable value).    *)
(* Sequences are 1-based here; bank indices stored in assignments keep the *)
(* 0-based values of the code.                                             *)
(***************************************************************************)
EXTENDS Integers, Sequences, FiniteSets, Bags, TLC

VARIABLES
    unit,                 \* which object the run exercises: a lone Palette16 or an optimiser
    scratch,              \* Palette16.colours of the lone palette
    scratch_ret,          \* outcome of the last add_colour/try_add_colour on it
    scratch_call,         \* that call: its name, its colour and the palette it was made on
    transparent_colour,   \* Palette16Optimiser.transparent_colour: <<>> = None, <<c>> = Some(c)
    palettes,             \* Palette16Optimiser.palettes
    colours,              \* Palette16Optimiser.colours
    pc,                   \* position of the caller: idle, inside optimise_palettes, returned, panicked
    assignments,          \* local of optimise_palettes
    optimised_palettes,   \* local of optimise_palettes
    unsatisfied_palettes, \* local of optimise_palettes (a HashSet)
    last_find,            \* outcome of the last find_maximal_palette_for call
    earlier               \* <<results>> returned before a palette was registered again, or <<>>

vars == <<unit, scratch, scratch_ret, scratch_call, transparent_colour, palettes, colours,
          pc, assignments, optimised_palettes, unsatisfied_palettes, last_find, earlier>>

palette_vars == <<scratch, scratch_ret, scratch_call>>

optimiser_vars == <<transparent_colour, palettes, colours, pc, assignments,
                    optimised_palettes, unsatisfied_palettes, last_find, earlier>>

----------------------------------------------------------------------------
(* Program constants *)

MAX_COLOURS == 256
MAX_COLOURS_PER_PALETTE == 16

\* Colour::from_rgb(255, 0, 255, 0), the seed of a bank when no transparent colour is set
Sentinel == 0

----------------------------------------------------------------------------
(* Bounds of the exploration *)

\* palettes of any catalogue shape registered on one optimiser
MaxPalettes == 3
\* palettes registered when every palette is a whole, pairwise disjoint 15-colour run
MaxBlocks == 17

----------------------------------------------------------------------------
(* Helpers *)

Range(s) == {s[i] : i \in 1..Len(s)}

\* s as a map from each element to the 1-based index of its first occurrence
\* (Iterator::position); built by halves, the earlier half taking precedence
RECURSIVE IndexOf(_, _, _)
IndexOf(s, lo, hi) ==
    IF lo > hi THEN <<>>
    ELSE IF lo = hi THEN s[lo] :> lo
    ELSE LET mid == (lo + hi) \div 2
         IN IndexOf(s, lo, mid) @@ IndexOf(s, mid + 1, hi)

Reverse(s) == [i \in 1..Len(s) |-> s[Len(s) + 1 - i]]

\* the distinct elements of s in order of first occurrence
RECURSIVE Dedup(_)
Dedup(s) ==
    IF s = <<>> THEN <<>>
    ELSE LET d == Dedup(SubSeq(s, 1, Len(s) - 1))
             x == s[Len(s)]
         IN IF x \in Range(d) THEN d ELSE Append(d, x)

----------------------------------------------------------------------------
(* Palette16 *)

new == <<>>

add_colour(pal, colour) ==
    IF colour \in Range(pal) THEN [colours |-> pal, ret |-> "false"]
    ELSE IF Len(pal) = MAX_COLOURS_PER_PALETTE THEN [colours |-> pal, ret |-> "panic"]
    ELSE [colours |-> Append(pal, colour), ret |-> "true"]

\* try_add_colour without the test for a full palette
try_add_colour_push(pal, colour) ==
    IF colour \in Range(pal) THEN [colours |-> pal, ret |-> "true"]
    ELSE [colours |-> Append(pal, colour), ret |-> "true"]

try_add_colour(pal, colour) ==
    IF colour \in Range(pal) THEN [colours |-> pal, ret |-> "true"]
    ELSE IF Len(pal) = MAX_COLOURS_PER_PALETTE THEN [colours |-> pal, ret |-> "false"]
    ELSE [colours |-> Append(pal, colour), ret |-> "true"]

\* union_length that counts a shared colour twice
union_length_sum(pal, other) == Len(pal) + Len(other)

union_length(pal, other) == Cardinality(Range(pal) \cup Range(other))

\* is_satisfied_by with the subset test the wrong way round
is_satisfied_by_swapped(pal, other) == Range(other) \subseteq Range(pal)

is_satisfied_by(pal, other) == Range(pal) \subseteq Range(other)

----------------------------------------------------------------------------
(* Palette16Optimiser: find_maximal_palette_for *)

\* the colour every bank is seeded with
SeedColour == IF transparent_colour = <<>> THEN Sentinel ELSE transparent_colour[1]

\* colour_usage is kept as the bag of the indices counted: entry i of the vector is
\* CopiesIn(i, usage), and vec![0; MAX_COLOURS] is the empty bag
ZeroUsage == EmptyBag

\* the tally without the test for colours the bank already holds
TallyColours_no_contains(tally, position, in_bank, current_palette) ==
    LET counted == {position[colour] :
                        colour \in Range(current_palette) \cap DOMAIN position}
    IN [usage |-> tally.usage (+) SetToBag(counted),
        used |-> tally.used \/ counted # {}]

\* for colour in &current_palette.colours { ... colour_usage[colour_index] += 1 }
\* position is self.colours as a map from colour to index, in_bank the colours of the
\* bank; a palette holds no colour twice, so each of its colours counts once
TallyColours(tally, position, in_bank, current_palette) ==
    LET counted == {position[colour] :
                        colour \in (Range(current_palette) \ in_bank) \cap DOMAIN position}
    IN [usage |-> tally.usage (+) SetToBag(counted),
        used |-> tally.used \/ counted # {}]

\* the tally that stops at the first palette that does not fit (break for continue)
RECURSIVE TallyPalettes_break(_, _, _, _, _)
TallyPalettes_break(tally, position, bank, order, k) ==
    IF k > Len(order) THEN tally
    ELSE IF Cardinality(Range(bank) \cup Range(order[k])) > MAX_COLOURS_PER_PALETTE
         THEN tally
         ELSE TallyPalettes_break(
                  [usage |-> tally.usage (+) SetToBag({position[colour] :
                        colour \in (Range(order[k]) \ Range(bank)) \cap DOMAIN position}),
                   used |-> tally.used
                        \/ (Range(order[k]) \ Range(bank)) \cap DOMAIN position # {}],
                  position, bank, order, k + 1)

\* for current_palette in unsatisfied_palettes { ... }, in the iteration order given
RECURSIVE TallyPalettes(_, _, _, _, _)
TallyPalettes(tally, position, bank, order, k) ==
    IF k > Len(order) THEN tally
    ELSE IF union_length(bank, order[k]) > MAX_COLOURS_PER_PALETTE
         THEN TallyPalettes(tally, position, bank, order, k + 1)
         ELSE TallyPalettes(TallyColours(tally, position, Range(bank), order[k]),
                            position, bank, order, k + 1)

colour_usage(position, bank, order) ==
    TallyPalettes([usage |-> ZeroUsage, used |-> FALSE], position, bank, order, 1)

\* the least element of a non-empty set of integers
SetMin(S) == CHOOSE x \in S : \A y \in S : x <= y

SetMax(S) == 0 - SetMin({0 - x : x \in S})

\* max_by taken to return the first of equal maxima
best_index_first(usage) ==
    IF usage = EmptyBag THEN 1
    ELSE LET counted == BagToSet(usage)
             highest == SetMax({CopiesIn(i, usage) : i \in counted})
         IN SetMin({i \in counted : CopiesIn(i, usage) = highest})

\* Iterator::max_by over the enumerated vector: the index of the maximum, and of equal
\* maxima the last one (the last entry of an all-zero vector)
best_index(usage) ==
    IF usage = EmptyBag THEN MAX_COLOURS
    ELSE LET counted == BagToSet(usage)
             highest == SetMax({CopiesIn(i, usage) : i \in counted})
         IN SetMax({i \in counted : CopiesIn(i, usage) = highest})

\* the loop of find_maximal_palette_for; additions counts its add_colour calls
RECURSIVE GrowBank(_, _, _, _)
GrowBank(position, bank, order, additions) ==
    LET tally == colour_usage(position, bank, order)
    IN IF ~tally.used
       THEN [palette |-> bank, additions |-> additions, status |-> "returned"]
       ELSE LET idx == best_index(tally.usage)
            IN IF idx > Len(colours)
               THEN [palette |-> bank, additions |-> additions, status |-> "panic"]
               ELSE LET r == add_colour(bank, colours[idx])
                    IN IF r.ret = "panic"
                       THEN [palette |-> bank, additions |-> additions + 1,
                             status |-> "panic"]
                       ELSE IF Len(r.colours) = MAX_COLOURS_PER_PALETTE
                       THEN [palette |-> r.colours, additions |-> additions + 1,
                             status |-> "returned"]
                       ELSE IF r.ret = "false"
                       THEN [palette |-> bank, additions |-> additions + 1,
                             status |-> "diverges"]
                       ELSE GrowBank(position, r.colours, order, additions + 1)

find_maximal_palette_for(order) ==
    GrowBank(IndexOf(colours, 1, Len(colours)), add_colour(new, SeedColour).colours, order, 0)

----------------------------------------------------------------------------
(* Iteration orders of the HashSet of unsatisfied palettes *)

\* the unsatisfied palettes in order of first registration
RegistrationOrder(S) == SelectSeq(Dedup(palettes), LAMBDA p : p \in S)

\* the orders in which the set may be iterated: that of registration and its reverse
IterationOrders(S) == {RegistrationOrder(S), Reverse(RegistrationOrder(S))}

\* for test_palette in unsatisfied_palettes.clone() { if satisfied { remove } }
RECURSIVE RemoveSatisfied(_, _, _, _)
RemoveSatisfied(S, order, bank, k) ==
    IF k > Len(order) THEN S
    ELSE IF is_satisfied_by(order[k], bank)
         THEN RemoveSatisfied(S \ {order[k]}, order, bank, k + 1)
         ELSE RemoveSatisfied(S, order, bank, k + 1)

\* the assignment loop run over the unsatisfied palettes only: the first covering bank stays
Reassign_first(assigned, bank, bank_index) ==
    [i \in 1..Len(palettes) |->
        IF Range(palettes[i]) \subseteq Range(bank) /\ palettes[i] \in unsatisfied_palettes
        THEN bank_index ELSE assigned[i]]

\* for (i, overall_palette) in self.palettes.iter().enumerate() { ... }
Reassign(assigned, bank, bank_index) ==
    [i \in 1..Len(palettes) |->
        IF is_satisfied_by(palettes[i], bank) THEN bank_index ELSE assigned[i]]

----------------------------------------------------------------------------
(* Input palettes handed to add_palette *)

\* the colour that may be configured as the transparent colour
Key == Sentinel + 1

RunBase == Key + 1

\* the first r colours of run k; the runs are pairwise disjoint
Run(k, r) == [i \in 1..r |-> RunBase + MAX_COLOURS_PER_PALETTE * k + (i - 1)]

\* palettes of the backdrop colours alone
PoolPalettes == {<<Sentinel>>, <<Sentinel, Key>>}

\* palettes that end in a run: what they hold before it, and how much of the run
RunShapes == {<<<<>>, MAX_COLOURS_PER_PALETTE - 1>>,
              <<<<Sentinel>>, MAX_COLOURS_PER_PALETTE - 2>>,
              <<<<Sentinel>>, MAX_COLOURS_PER_PALETTE - 1>>}

\* the runs a catalogue palette may draw from
RunIds == {0, 1}

\* the palettes the tile extraction may hand over when n palettes are registered; the
\* first palette registered draws from run 0
CataloguePalettes(n) ==
    PoolPalettes
    \cup {shape[1] \o Run(k, shape[2]) : shape \in RunShapes, k \in {id \in RunIds : id <= n}}

\* a whole run: 15 colours that no other run has
Block(k) == Run(k, MAX_COLOURS_PER_PALETTE - 1)

AllBlocks == \A i \in 1..Len(palettes) : palettes[i] = Block(i - 1)

InputPalettes ==
    (IF Len(palettes) < MaxPalettes THEN CataloguePalettes(Len(palettes)) ELSE {})
    \cup (IF AllBlocks /\ Len(palettes) < MaxBlocks THEN {Block(Len(palettes))} ELSE {})
    \cup (IF AllBlocks /\ Len(palettes) = MaxBlocks THEN PoolPalettes ELSE {})

-----
(* Initial state *)

TransparentChoices == {<<>>, <<Key>>}

Init ==
    /\ unit \in {"Palette16", "Optimiser"}
    /\ scratch = new
    /\ scratch_ret = "none"
    /\ scratch_call = <<>>
    /\ transparent_colour \in (IF unit = "Optimiser" THEN TransparentChoices ELSE {<<>>})
    /\ palettes = <<>>
    /\ colours = <<>>
    /\ pc = "idle"
    /\ assignments = <<>>
    /\ optimised_palettes = <<>>
    /\ unsatisfied_palettes = {}
    /\ last_find = [additions |-> 0, status |-> "none"]
    /\ earlier = <<>>

----------------------------------------------------------------------------
(* Actions on a lone Palette16 *)

\* the colours tried on the lone palette: those it holds and the next new one
ScratchColours == 0..Len(scratch)

AddColour(colour) ==
    /\ unit = "Palette16"
    /\ scratch_ret # "panic"
    /\ scratch' = add_colour(scratch, colour).colours
    /\ scratch_ret' = add_colour(scratch, colour).ret
    /\ scratch_call' = <<"add_colour", colour, scratch>>
    /\ UNCHANGED <<unit, optimiser_vars>>

TryAddColour(colour) ==
    /\ unit = "Palette16"
    /\ scratch_ret # "panic"
    /\ scratch' = try_add_colour(scratch, colour).colours
    /\ scratch_ret' = try_add_colour(scratch, colour).ret
    /\ scratch_call' = <<"try_add_colour", colour, scratch>>
    /\ UNCHANGED <<unit, optimiser_vars>>

----------------------------------------------------------------------------
(* Actions on a Palette16Optimiser *)

\* the loop of add_palette without its test for known colours
MergeColours_push(known, palette, j) == known \o SubSeq(palette, j, Len(palette))

\* self.colours after the loop of add_palette
RECURSIVE MergeColours(_, _, _)
MergeColours(known, palette, j) ==
    IF j > Len(palette) THEN known
    ELSE IF palette[j] \in Range(known) THEN MergeColours(known, palette, j + 1)
         ELSE MergeColours(Append(known, palette[j]), palette, j + 1)

\* add_palette failing at 256 colours already
add_palette_at_limit(palette) ==
    /\ palettes' = Append(palettes, palette)
    /\ colours' = MergeColours(colours, palette, 1)
    /\ pc' = IF Len(colours') >= MAX_COLOURS THEN "panic_colours" ELSE "idle"

add_palette(palette) ==
    /\ palettes' = Append(palettes, palette)
    /\ colours' = MergeColours(colours, palette, 1)
    /\ pc' = IF Len(colours') > MAX_COLOURS THEN "panic_colours" ELSE "idle"

\* add_palette with a palette of the tile extraction
RegisterPalette(palette) ==
    /\ unit = "Optimiser"
    /\ pc = "idle"
    /\ earlier = <<>>
    /\ add_palette(palette)
    /\ UNCHANGED <<unit, palette_vars, transparent_colour, assignments,
                   optimised_palettes, unsatisfied_palettes, last_find, earlier>>

\* add_palette with a copy of palette i, by a caller that keeps the results it received
RegisterAgain(i) ==
    /\ pc = "returned"
    /\ earlier = <<>>
    /\ Len(palettes) < MaxPalettes
    /\ add_palette(palettes[i])
    /\ earlier' = <<[optimised_palettes |-> optimised_palettes,
                     assignments |-> assignments,
                     colours |-> colours,
                     copy_of |-> i]>>
    /\ assignments' = <<>>
    /\ optimised_palettes' = <<>>
    /\ unsatisfied_palettes' = {}
    /\ last_find' = [additions |-> 0, status |-> "none"]
    /\ UNCHANGED <<unit, palette_vars, transparent_colour>>

\* optimise_palettes up to the first test of the while condition
optimise_palettes_enter ==
    /\ unit = "Optimiser"
    /\ pc = "idle"
    /\ assignments' = [i \in 1..Len(palettes) |-> 0]
    /\ optimised_palettes' = <<>>
    /\ unsatisfied_palettes' = Range(palettes)
    /\ last_find' = [additions |-> 0, status |-> "none"]
    /\ pc' = IF unsatisfied_palettes' = {} THEN "returned" ELSE "loop"
    /\ UNCHANGED <<unit, palette_vars, transparent_colour, palettes, colours, earlier>>

\* one iteration of the while loop of optimise_palettes
optimise_palettes_iterate ==
    /\ pc = "loop"
    /\ \E tally_order \in IterationOrders(unsatisfied_palettes) :
        LET found == find_maximal_palette_for(tally_order)
            palette == found.palette
        IN \E test_order \in IterationOrders(unsatisfied_palettes) :
           /\ last_find' = [additions |-> found.additions, status |-> found.status]
           /\ IF found.status # "returned"
              THEN /\ pc' = IF found.status = "panic" THEN "panic_add" ELSE "diverged"
                   /\ UNCHANGED <<assignments, optimised_palettes, unsatisfied_palettes>>
              ELSE /\ unsatisfied_palettes' =
                          RemoveSatisfied(unsatisfied_palettes, test_order, palette, 1)
                   /\ assignments' = Reassign(assignments, palette, Len(optimised_palettes))
                   /\ optimised_palettes' = Append(optimised_palettes, palette)
                   /\ pc' = IF Len(optimised_palettes') = MAX_COLOURS \div MAX_COLOURS_PER_PALETTE
                            THEN "panic_cover"
                            ELSE IF unsatisfied_palettes' = {} THEN "returned" ELSE "loop"
    /\ UNCHANGED <<unit, palette_vars, transparent_colour, palettes, colours, earlier>>

\* the caller drops the results; the optimiser can be used again
drop_results ==
    /\ pc = "returned"
    /\ pc' = "idle"
    /\ assignments' = <<>>
    /\ optimised_palettes' = <<>>
    /\ unsatisfied_palettes' = {}
    /\ last_find' = [additions |-> 0, status |-> "none"]
    /\ UNCHANGED <<unit, palette_vars, transparent_colour, palettes, colours, earlier>>

Next ==
    \/ \E colour \in ScratchColours : AddColour(colour)
    \/ \E colour \in ScratchColours : TryAddColour(colour)
    \/ \E palette \in InputPalettes : RegisterPalette(palette)
    \/ optimise_palettes_enter
    \/ optimise_palettes_iterate
    \/ drop_results

Spec == Init /\ [][Next]_vars

NextAgain ==
    \/ Next
    \/ \E i \in 1..Len(palettes) : RegisterAgain(i)

\* the runs in which a palette may be registered a second time after a result
SpecAgain == Init /\ [][NextAgain]_vars

----------------------------------------------------------------------------
(* Vocabulary of the properties *)

\* the results value optimise_palettes returns
Returned == pc = "returned"

Panicked == pc \in {"panic_colours", "panic_cover", "panic_add"}

\* bank j (0-based, as assignments stores it)
Bank(j) == optimised_palettes[j + 1]

BankIndices == 0..(Len(optimised_palettes) - 1)

Covers(bank, palette) == \A c \in Range(palette) : c \in Range(bank)

NoRepeat(s) == \A i, j \in 1..Len(s) : i # j => s[i] # s[j]

\* the distinct colours of all registered palettes
RegisteredColours == UNION {Range(palettes[i]) : i \in 1..Len(palettes)}

----------------------------------------------------------------------------
\* C1 (subset closure): a returned result has one assignment per registered palette,
\* each a valid bank index, and the bank it names holds every colour of the palette.
SubsetClosure ==
    Returned =>
        /\ Len(assignments) = Len(palettes)
        /\ \A i \in 1..Len(palettes) :
            /\ assignments[i] \in BankIndices
            /\ Covers(Bank(assignments[i]), palettes[i])

SubsetClosureWitness ==
    /\ Returned
    /\ Len(palettes) >= 3
    /\ Len(optimised_palettes) >= 2
    /\ \E i, j \in 1..Len(palettes) : assignments[i] # assignments[j]

----------------------------------------------------------------------------
\* C2 (last covering bank wins): in a returned result the assignment of every palette
\* is the highest index among the banks that hold all its colours.
LastCoveringBankWins ==
    Returned =>
        \A i \in 1..Len(palettes) :
            LET covering == {j \in BankIndices : Covers(Bank(j), palettes[i])}
            IN /\ assignments[i] \in covering
               /\ \A j \in covering : j <= assignments[i]

LastCoveringBankWinsWitness ==
    /\ Returned
    /\ \E i \in 1..Len(palettes) :
        /\ Cardinality({j \in BankIndices : Covers(Bank(j), palettes[i])}) >= 2
        /\ assignments[i] > 0

----------------------------------------------------------------------------
(* C3: the colour chosen at each step of building a bank *)

BankBuilt == pc = "loop" /\ Len(optimised_palettes') = Len(optimised_palettes) + 1

\* the unsatisfied palettes, each with its colour set, that still fit a bank grown to prefix
FittingOf(unsatisfied, prefix) ==
    {<<p, Range(p)>> : p \in {q \in unsatisfied :
        Cardinality(Range(prefix) \cup Range(q)) <= MAX_COLOURS_PER_PALETTE}}

TallyIn(fitting, c) == Cardinality({f \in fitting : c \in f[2]})

\* the colours that gain a count at this step
CandidatesIn(fitting, prefix) ==
    ((UNION {f[2] : f \in fitting}) \ Range(prefix)) \cap Range(colours)

\* colour c is one of the highest tally among the candidates after prefix, and of the
\* candidates of that tally it is the one that Prefers(index of c, index of other)
GreedyPick(unsatisfied, prefix, c, Prefers(_, _)) ==
    LET fitting == FittingOf(unsatisfied, prefix)
        candidates == CandidatesIn(fitting, prefix)
        index == IndexOf(colours, 1, Len(colours))
        tally == TallyIn(fitting, c)
    IN /\ c \in candidates
       /\ \A d \in candidates :
            /\ TallyIn(fitting, d) <= tally
            /\ TallyIn(fitting, d) = tally => Prefers(index[c], index[d])

EveryPick(unsatisfied, bank, Prefers(_, _)) ==
    \A j \in 2..Len(bank) : GreedyPick(unsatisfied, SubSeq(bank, 1, j - 1), bank[j], Prefers)

Lower(a, b) == a <= b

Higher(a, b) == a >= b

----------------------------------------------------------------------------
\* C4 (uncoverable-input failure): optimise_palettes fails with the covering error
\* only when palettes are still unsatisfied after the 16th bank; a covering that the
\* 16th bank completes is returned.
CoveringFailureOnlyWhenUncovered ==
    pc = "panic_cover" => unsatisfied_palettes # {}

----------------------------------------------------------------------------
(* C5: two palettes that fit one bank *)

Finished == Returned \/ Panicked \/ pc = "diverged"

OneBankForBoth == Returned /\ Len(optimised_palettes) = 1 /\ assignments = <<0, 0>>

\* C5 as claimed: two registered palettes with at most 16 distinct colours between
\* them get exactly one bank and assignments [0, 0].
TwoPaletteMerge ==
    (Finished /\ Len(palettes) = 2 /\ earlier = <<>>
        /\ Cardinality(RegisteredColours) <= MAX_COLOURS_PER_PALETTE)
    => OneBankForBoth

\* C5 as amended: two registered palettes with at most 16 distinct colours between
\* them, the seed colour of the banks counted in, get exactly one bank and
\* assignments [0, 0].
TwoPaletteMergeWithSeed ==
    (Finished /\ Len(palettes) = 2
        /\ Cardinality(RegisteredColours \cup {SeedColour}) <= MAX_COLOURS_PER_PALETTE)
    => OneBankForBoth

TwoPaletteMergeWitness ==
    /\ OneBankForBoth
    /\ Len(palettes) = 2
    /\ palettes[1] # palettes[2]
    /\ ~Covers(palettes[1], palettes[2])
    /\ ~Covers(palettes[2], palettes[1])
    /\ Cardinality(RegisteredColours \cup {SeedColour}) = MAX_COLOURS_PER_PALETTE

----------------------------------------------------------------------------
\* C6 (dedup idempotence): after a palette identical to a registered one is registered
\* again, the global colour list is the one before, optimise_palettes returns the same
\* banks in the same order, and the assignments are the earlier ones followed by one
\* more entry, equal to the entry of the palette that was copied.
DedupIdempotence ==
    earlier # <<>> =>
        /\ colours = earlier[1].colours
        /\ ~Panicked
        /\ Returned =>
            /\ optimised_palettes = earlier[1].optimised_palettes
            /\ assignments = Append(earlier[1].assignments,
                                    earlier[1].assignments[earlier[1].copy_of])

DedupIdempotenceWitness ==
    /\ earlier # <<>>
    /\ Returned
    /\ Len(optimised_palettes) >= 2
    /\ assignments[Len(assignments)] = 1

----------------------------------------------------------------------------
(* C7: determinism *)

\* the iteration of the while loop as it goes when the set is iterated in registration order
IterateInRegistrationOrder ==
    LET found == find_maximal_palette_for(RegistrationOrder(unsatisfied_palettes))
    IN /\ found.status = "returned"
       /\ optimised_palettes' = Append(optimised_palettes, found.palette)
       /\ unsatisfied_palettes' =
              {p \in unsatisfied_palettes : ~Covers(found.palette, p)}
       /\ assignments' =
              [i \in 1..Len(palettes) |->
                  IF Covers(found.palette, palettes[i]) THEN Len(optimised_palettes)
                  ELSE assignments[i]]
       /\ pc' = IF Len(optimised_palettes') = MAX_COLOURS \div MAX_COLOURS_PER_PALETTE
                THEN "panic_cover"
                ELSE IF unsatisfied_palettes' = {} THEN "returned" ELSE "loop"

\* C7 (determinism): every step of optimise_palettes is fixed by the registered
\* palettes, the colour list and the transparent colour, which it leaves as they are:
\* whatever order the unsatisfied set is iterated in, the step is the one of the
\* registration order, and a call starts from the registered palettes alone.
Determinism ==
    /\ [][pc = "loop" =>
            /\ IterateInRegistrationOrder
            /\ UNCHANGED <<palettes, colours, transparent_colour>>]_vars
    /\ [][(pc = "idle" /\ pc' \in {"loop", "returned"}) =>
            /\ unsatisfied_palettes' = Range(palettes)
            /\ optimised_palettes' = <<>>
            /\ assignments' = [i \in 1..Len(palettes) |-> 0]
            /\ UNCHANGED <<palettes, colours, transparent_colour>>]_vars

\* a result of several banks for palettes that can be iterated in different orders
DeterminismWitness ==
    /\ Returned
    /\ Cardinality(Range(palettes)) >= 3
    /\ Len(optimised_palettes) >= 2
    /\ \E j \in BankIndices : Cardinality({i \in 1..Len(palettes) : assignments[i] = j}) >= 2

----------------------------------------------------------------------------
\* C8 (capacity invariant): a Palette16 under add_colour and try_add_colour, and every
\* bank, holds at most 16 colours and none twice; on a full palette and a new colour
\* try_add_colour returns false and add_colour fails, both leaving the palette as it
\* was; the building of a bank never takes the failing path of add_colour.
FullAndNew == Len(scratch_call[3]) = MAX_COLOURS_PER_PALETTE
                 /\ scratch_call[2] \notin Range(scratch_call[3])

CapacityInvariant ==
    /\ Len(scratch) <= MAX_COLOURS_PER_PALETTE
    /\ NoRepeat(scratch)
    /\ \A j \in BankIndices :
        Len(Bank(j)) <= MAX_COLOURS_PER_PALETTE /\ NoRepeat(Bank(j))
    /\ (scratch_call # <<>> /\ FullAndNew) =>
        /\ scratch = scratch_call[3]
        /\ scratch_call[1] = "try_add_colour" => scratch_ret = "false"
        /\ scratch_call[1] = "add_colour" => scratch_ret = "panic"
    /\ pc # "panic_add"
    /\ last_find.status \in {"none", "returned"}

CapacityWitness ==
    /\ scratch_call # <<>>
    /\ FullAndNew
    /\ scratch_call[1] = "try_add_colour"
    /\ scratch_ret = "false"

----------------------------------------------------------------------------
(* C9: the budget of 256 colours *)

\* the index of the first registered palette holding colour c
FirstPalette(c) ==
    CHOOSE i \in 1..Len(palettes) :
        c \in Range(palettes[i]) /\ \A k \in 1..(i - 1) : c \notin Range(palettes[k])

PlaceIn(palette, c) == CHOOSE j \in 1..Len(palette) : palette[j] = c

\* colour c was seen before colour d
SeenBefore(c, d) ==
    \/ FirstPalette(c) < FirstPalette(d)
    \/ /\ FirstPalette(c) = FirstPalette(d)
       /\ PlaceIn(palettes[FirstPalette(c)], c) < PlaceIn(palettes[FirstPalette(c)], d)

\* C9 (global colour budget): add_palette fails exactly when the registered palettes,
\* the new one included, hold more than 256 distinct colours; after a successful
\* add_palette the colour list holds each registered colour once, in first-seen order,
\* and at most 256 of them; an add_palette appends its palette and changes no earlier one.
GlobalColourBudget ==
    /\ [](pc = "panic_colours" <=> Cardinality(RegisteredColours) > MAX_COLOURS)
    /\ [](pc # "panic_colours" =>
            /\ Len(colours) <= MAX_COLOURS
            /\ NoRepeat(colours)
            /\ Range(colours) = RegisteredColours
            /\ \A i \in 1..(Len(colours) - 1) : SeenBefore(colours[i], colours[i + 1]))
    /\ [][palettes' # palettes =>
            /\ Len(palettes') = Len(palettes) + 1
            /\ SubSeq(palettes', 1, Len(palettes)) = palettes]_vars

\* exactly 256 colours are registered and accepted
GlobalColourBudgetWitness ==
    /\ pc = "idle"
    /\ Len(colours) = MAX_COLOURS
    /\ Len(palettes) > MaxPalettes

----------------------------------------------------------------------------
\* C10 (bounded termination): a call of optimise_palettes comes to an end, returning or
\* failing, after at most 16 iterations of its loop, and every call of
\* find_maximal_palette_for ends after at most 15 additions of a colour. Stated by the
\* variant: inside the loop the next call of find_maximal_palette_for returns, every
\* iteration ends the call of optimise_palettes or adds one bank, and no iteration
\* starts with 16 banks.
BoundedTermination ==
    /\ [](Len(optimised_palettes) <= MAX_COLOURS \div MAX_COLOURS_PER_PALETTE)
    /\ [](pc = "loop" =>
            /\ Len(optimised_palettes) < MAX_COLOURS \div MAX_COLOURS_PER_PALETTE
            /\ find_maximal_palette_for(RegistrationOrder(unsatisfied_palettes)).status
                   = "returned")
    /\ [](last_find.additions <= MAX_COLOURS_PER_PALETTE - 1)
    /\ [](pc # "diverged")
    /\ [][pc = "loop" =>
            \/ Len(optimised_palettes') = Len(optimised_palettes) + 1
            \/ Panicked']_vars

\* a bank built with 15 additions in a run that came to an end after 16 iterations
BoundedTerminationWitness ==
    /\ Len(optimised_palettes) = MAX_COLOURS \div MAX_COLOURS_PER_PALETTE
    /\ last_find.additions = MAX_COLOURS_PER_PALETTE - 1
    /\ Panicked

====
